---- MODULE Spec2Model ----
(***************************************************************************)
(* Identity & access provisioning of chart-breaker-backend: the            *)
(* registration workflow (request / verify / approve / reject / complete), *)
(* the authentication and authorization gates, and user deactivation.      *)
(*                                                                         *)
(* Every route handler is an async function.  Between two awaited store    *)
(* calls other handlers may run, so a handler is modelled as a sequence of *)
(* steps, one per awaited call: a step is the store call together with the *)
(* synchronous code that runs on its result, up to the next awaited call   *)
(* or the response.  Time is counted in units of 12 hours.                 *)
(***************************************************************************)
EXTENDS Integers, Sequences, FiniteSets, TLC

\* ---------------------------------------------------------------- bounds
MaxTime == 3
MaxClaims == 3
MaxTokens == 2

\* ------------------------------------------------------- program constants
VerificationTTL == 2
CompletionTTL == 1
SessionTTL == 2

NULL == -1
UNDEFINED == -2

Roles == {"ADMIN", "INTAKE_STAFF", "CLINICIAN", "QA_REVIEWER", "BILLER"}

\* A claim number is `CLM${year}` followed by the number padded to six digits;
\* a claim without one has null in the column.
ClaimPrefix == "CLM2026"
NoClaimNumber == <<>>
requestRegistrationSchemaRoles == {"INTAKE_STAFF", "CLINICIAN", "QA_REVIEWER", "BILLER"}
validRoles == {"INTAKE_STAFF", "CLINICIAN", "QA_REVIEWER", "BILLER"}

AdminEmail == "admin@chartbreaker.com"
NurseEmail == "nurse@chartbreaker.com"
NewEmail == "a@x.com"
MixedCaseEmail == "A@x.com"

\* String.prototype.toLowerCase on the addresses callers send.
toLowerCase(email) == IF email = MixedCaseEmail THEN NewEmail ELSE email

\* ------------------------------------------------------------ input sets
Procs == {1, 2}
EmailInputs == {NewEmail}
Codes == {111111, 222222}
Password == "correct horse"
Jwt(userId, exp) == [kind |-> "jwt", userId |-> userId, exp |-> exp]
NoSession == [kind |-> "none", userId |-> NULL, exp |-> NULL]
ForgedSession == [kind |-> "forged", userId |-> 1, exp |-> MaxTime + SessionTTL]

\* A refresh token: signed with JWT_REFRESH_SECRET, not with JWT_SECRET.
RefreshJwt(userId, exp) == [kind |-> "refresh", userId |-> userId, exp |-> exp]

AdminSession == Jwt(1, MaxTime + SessionTTL)
NurseSession == Jwt(2, MaxTime + SessionTTL)

\* Every way the administrator's bearer token can be missing or unusable, and
\* the tokens of the clinician and of a user the store no longer holds.
OtherSessions ==
    {NoSession, ForgedSession, Jwt(1, SessionTTL), NurseSession, Jwt(9, MaxTime + SessionTTL)}

\* What callers may send: well-formed and malformed requests alike.
AllInputs ==
    [emails |-> EmailInputs,
     roles |-> {"ADMIN", "CLINICIAN"},
     codes |-> Codes \cup {12345},
     tokens |-> 0..MaxTokens,
     passwords |-> {Password},
     approve |-> {<<s, 1>> : s \in OtherSessions} \cup {<<AdminSession, id>> : id \in {1, 9}},
     reject |-> {<<s, 1, "incomplete info">> : s \in OtherSessions}
                \cup {<<AdminSession, 9, "incomplete info">>, <<AdminSession, 1, "">>,
                      <<AdminSession, 1, "incomplete info">>},
     status |-> {<<s, 1, FALSE>> : s \in OtherSessions}
                \cup {<<AdminSession, u, f>> : u \in {1, 9}, f \in BOOLEAN}]

\* Well-formed requests whose bearer token verifies: the administrator's, the
\* clinician's, and one naming a user the store does not hold.
WellFormedInputs ==
    [emails |-> EmailInputs,
     roles |-> {"CLINICIAN"},
     codes |-> Codes,
     tokens |-> 1..MaxTokens,
     passwords |-> {Password},
     approve |-> {<<s, 1>> : s \in {AdminSession, NurseSession}},
     reject |-> {<<s, 1, "incomplete info">> : s \in {AdminSession, NurseSession}},
     status |-> {<<s, 1, f>> : s \in {AdminSession, NurseSession}, f \in BOOLEAN}
                \cup {<<Jwt(9, MaxTime + SessionTTL), 1, FALSE>>}]

\* bcrypt.hash and bcrypt.compare: a hash matches the password it was made from.
bcryptHash(password) == <<"bcrypt", password>>
\* Mutant: every password matches.
bcryptCompare_AlwaysTrue(password, passwordHash) == TRUE

bcryptCompare(password, passwordHash) == passwordHash = bcryptHash(password)

\* ------------------------------------------------------------------ state
\* users, requests: the store.  now: the wall clock.  tokensIssued: how many
\* completion tokens crypto.randomBytes has produced (each one is new).
\* pc, loc, resp: per handler slot, the await it is at, its locals and the
\* response it last sent.  consumed: per email, the verification code and the
\* completion token that the last successful verify / complete used up
\* (history, not read by any handler).  claims: the billing claims of the store.
VARIABLES users, requests, now, tokensIssued, pc, loc, resp, consumed, claims

vars == <<users, requests, now, tokensIssued, pc, loc, resp, consumed, claims>>

store == <<users, requests>>

\* The rows the seed script creates: the administrator and a clinician.
SeedUsers ==
    << [email |-> AdminEmail, role |-> "ADMIN", isActive |-> TRUE,
        passwordHash |-> bcryptHash("admin123"), lastLogin |-> NULL],
       [email |-> NurseEmail, role |-> "CLINICIAN", isActive |-> TRUE,
        passwordHash |-> bcryptHash("clinician123"), lastLogin |-> NULL] >>

\* A row of the registration-request table; id = NULL stands for "no row".
NoRequest ==
    [id |-> NULL, role |-> "-", status |-> "-", verificationCode |-> NULL,
     verificationExpires |-> NULL, completionToken |-> NULL,
     completionTokenExpires |-> NULL, approvedBy |-> NULL, adminNotes |-> "null"]

IdleLoc ==
    [op |-> "none", email |-> "-", role |-> "-", code |-> NULL, token |-> NULL,
     password |-> "-",
     reqId |-> NULL, uid |-> NULL, flag |-> FALSE, reason |-> "-", caller |-> NoSession,
     reqUser |-> NULL,
     genCode |-> NULL, genExp |-> NULL, snapRole |-> "-", mail |-> "-",
     issued |-> NoSession, rows |-> {},
     claimId |-> NULL, claimStatus |-> "-", claimNumber |-> NoClaimNumber]

NoResp == [op |-> "none", http |-> 0, code |-> "-", arg |-> NULL, role |-> "-",
           caller |-> NoSession, email |-> "-", password |-> "-", mail |-> "-",
           issued |-> NoSession, rows |-> {}]

NothingConsumed == [code |-> NULL, token |-> NULL]

Init ==
    /\ users = SeedUsers
    /\ requests = [e \in EmailInputs |-> NoRequest]
    /\ now = 0
    /\ tokensIssued = 0
    /\ pc = [p \in Procs |-> "idle"]
    /\ loc = [p \in Procs |-> IdleLoc]
    /\ resp = [p \in Procs |-> NoResp]
    /\ consumed = [e \in EmailInputs |-> NothingConsumed]
    /\ claims = <<>>

\* -------------------------------------------------------------- store reads
\* prisma.user.findUnique({ where: { email } }): the id of the row, or NULL.
findUserByEmail(email) ==
    IF \E i \in 1..Len(users) : users[i].email = email
    THEN CHOOSE i \in 1..Len(users) : users[i].email = email
    ELSE NULL

\* prisma.user.findUnique({ where: { id } })
findUserById(id) == IF id \in 1..Len(users) THEN id ELSE NULL

\* prisma.userRegistrationRequest.findUnique({ where: { email } })
findRequestByEmail(email) == requests[email]

\* prisma.userRegistrationRequest.findUnique({ where: { id } }): the key of the row, or "-".
findRequestById(id) ==
    IF \E e \in DOMAIN requests : requests[e].id = id
    THEN CHOOSE e \in DOMAIN requests : requests[e].id = id
    ELSE "-"

\* Prisma leaves a column alone when the value given for it is undefined.
prismaSet(old, new) == IF new = UNDEFINED THEN old ELSE new

\* ---------------------------------------------------------- handler plumbing
\* The code or token the caller presented, kept with the response.
presented(l) ==
    IF l.op = "verify" THEN l.code ELSE IF l.op = "complete" THEN l.token ELSE NULL

\* A new request enters slot p: the lowest slot that runs no handler.
Free(p) == pc[p] = "idle" /\ \A q \in Procs : q < p => pc[q] # "idle"

\* Slot p's response becomes r.  The other slots keep theirs while they overlap
\* with p; a request that finds every slot idle starts from a clean record.
Responses(p, r) ==
    [q \in Procs |-> IF q = p THEN r
                     ELSE IF \A x \in Procs : pc[x] = "idle" THEN NoResp
                     ELSE resp[q]]

\* res.status(http).json({ code }) and the handler returns.
Finish(p, l, http, code) ==
    /\ loc' = [loc EXCEPT ![p] = IdleLoc]
    /\ resp' = Responses(p, [op |-> l.op, http |-> http, code |-> code,
                             arg |-> presented(l), role |-> l.role,
                             caller |-> l.caller, email |-> l.email,
                             password |-> l.password, mail |-> l.mail,
                             issued |-> l.issued, rows |-> l.rows])
    /\ pc' = [pc EXCEPT ![p] = "idle"]

\* The handler awaits its next store (or mail) call.
Await(p, l, label) ==
    /\ loc' = [loc EXCEPT ![p] = l]
    /\ resp' = Responses(p, NoResp)
    /\ pc' = [pc EXCEPT ![p] = label]

\* The wall clock advances (Date.now(), new Date()).
Tick ==
    /\ now < MaxTime
    /\ now' = now + 1
    /\ UNCHANGED <<users, requests, tokensIssued, pc, loc, resp, consumed, claims>>

\* ------------------------------------------ POST /request-registration
\* Mutant: the role is not validated.
requestRoleAccepted_AnyRole(role) == role \in Roles

\* requestRegistrationSchema.validate and the validRoles check.
requestRoleAccepted(role) ==
    /\ role \in requestRegistrationSchemaRoles
    /\ role \in validRoles

\* Validation, then prisma.user.findUnique({ where: { email } }).
RequestRegistration_FindUser(p, email, role) ==
    /\ Free(p)
    /\ LET l == [IdleLoc EXCEPT !.op = "request", !.email = email, !.role = role]
       IN  IF ~requestRoleAccepted(role)
           THEN Finish(p, l, 400, "Validation error")
           ELSE IF findUserByEmail(email) # NULL
           THEN Finish(p, l, 400, "USER_EXISTS")
           ELSE Await(p, l, "request_findRequest")
    /\ UNCHANGED <<users, requests, now, claims, tokensIssued, consumed>>

\* prisma.userRegistrationRequest.findUnique({ where: { email } }), the pending
\* check, generateVerificationCode() and the 24 hour expiry.
RequestRegistration_FindRequest(p) ==
    /\ pc[p] = "request_findRequest"
    /\ LET l == loc[p]
           existingRequest == findRequestByEmail(l.email)
       IN  IF existingRequest.id # NULL /\ existingRequest.status = "PENDING"
           THEN Finish(p, l, 400, "REQUEST_PENDING")
           ELSE \E verificationCode \in Codes :
                  Await(p, [l EXCEPT !.genCode = verificationCode,
                                     !.genExp = now + VerificationTTL],
                        "request_upsert")
    /\ UNCHANGED <<users, requests, now, claims, tokensIssued, consumed>>

\* The id the store gives a new registration request.
newRequestId == 1 + Cardinality({e \in DOMAIN requests : requests[e].id # NULL})

\* Mutant: the upsert inserts a new row even when the email has one.
upsertRequest_AlwaysCreates(old, l) ==
    [NoRequest EXCEPT !.id = IF old.id = NULL THEN newRequestId ELSE old.id + 1,
                      !.role = l.role, !.verificationCode = l.genCode,
                      !.verificationExpires = l.genExp, !.status = "PENDING"]

\* prisma.userRegistrationRequest.upsert({ where: { email }, update, create }).
upsertRequest(old, l) ==
    IF old.id # NULL
    THEN [old EXCEPT !.role = l.role, !.verificationCode = l.genCode,
                     !.verificationExpires = l.genExp, !.status = "PENDING"]
    ELSE [NoRequest EXCEPT !.id = newRequestId, !.role = l.role,
                           !.verificationCode = l.genCode,
                           !.verificationExpires = l.genExp, !.status = "PENDING"]

RequestRegistration_Upsert(p) ==
    /\ pc[p] = "request_upsert"
    /\ requests' = [requests EXCEPT ![loc[p].email] = upsertRequest(@, loc[p])]
    /\ Await(p, loc[p], "request_sendEmail")
    /\ consumed' = [consumed EXCEPT ![loc[p].email].code = NULL]
    /\ UNCHANGED <<users, now, claims, tokensIssued>>

\* What transporter.sendMail does with a message: it resolves or it rejects.
MailOutcomes == {"sent", "failed"}

\* Mutant: a failed send is reported to the caller.
sendVerificationEmail_ReportsFailure(outcome) == outcome = "sent"

\* emailService.sendVerificationEmail: the catch around sendMail logs the error
\* and returns true, as does the path where the send resolves.
sendVerificationEmail(outcome) == TRUE

\* emailService.sendRegistrationApprovalEmail and sendRegistrationRejectionEmail
\* catch the same way; the handlers do not read what they return.
sendRegistrationDecisionEmail(outcome) == TRUE

RequestRegistration_SendEmail(p) ==
    /\ pc[p] = "request_sendEmail"
    /\ \E outcome \in MailOutcomes :
         LET l == [loc[p] EXCEPT !.mail = outcome]
             emailSent == sendVerificationEmail(outcome)
         IN  IF ~emailSent
             THEN Finish(p, l, 500, "EMAIL_SEND_FAILED")
             ELSE Finish(p, l, 200, "OK")
    /\ UNCHANGED <<users, requests, now, claims, tokensIssued, consumed>>

\* --------------------------------------------------- POST /verify-email
\* verifyEmailSchema: verificationCode is a string of length 6.
verifyEmailSchemaValid(code) == code >= 100000 /\ code <= 999999

\* Mutant: the expiry of the code is not checked.
verifyEmailChecks_NoExpiry(registrationRequest, verificationCode, t) ==
    IF registrationRequest.id = NULL THEN "REQUEST_NOT_FOUND"
    ELSE IF registrationRequest.status # "PENDING" THEN "REQUEST_NOT_PENDING"
    ELSE IF registrationRequest.verificationCode # verificationCode THEN "INVALID_CODE"
    ELSE "OK"

\* The checks of /verify-email on the row it read: the response code, or "OK".
verifyEmailChecks(registrationRequest, verificationCode, t) ==
    IF registrationRequest.id = NULL THEN "REQUEST_NOT_FOUND"
    ELSE IF registrationRequest.status # "PENDING" THEN "REQUEST_NOT_PENDING"
    ELSE IF registrationRequest.verificationCode # verificationCode THEN "INVALID_CODE"
    ELSE IF t > registrationRequest.verificationExpires THEN "CODE_EXPIRED"
    ELSE "OK"

VerifyEmail_Find(p, email, code) ==
    /\ Free(p)
    /\ LET l == [IdleLoc EXCEPT !.op = "verify", !.email = email, !.code = code]
           registrationRequest == findRequestByEmail(email)
           outcome == verifyEmailChecks(registrationRequest, code, now)
       IN  IF ~verifyEmailSchemaValid(code)
           THEN Finish(p, l, 400, "Validation error")
           ELSE IF outcome # "OK"
           THEN Finish(p, l, 400, outcome)
           ELSE Await(p, l, "verify_update")
    /\ UNCHANGED <<users, requests, now, claims, tokensIssued, consumed>>

\* Mutant: the update leaves the code in place.
verifyEmailUpdate_KeepsCode(old) == old

\* prisma.userRegistrationRequest.update: the code and its expiry are cleared.
verifyEmailUpdate(old) ==
    [old EXCEPT !.verificationCode = NULL, !.verificationExpires = NULL]

VerifyEmail_Update(p) ==
    /\ pc[p] = "verify_update"
    /\ requests' = [requests EXCEPT ![loc[p].email] = verifyEmailUpdate(@)]
    /\ Finish(p, loc[p], 200, "OK")
    /\ consumed' = [consumed EXCEPT ![loc[p].email].code = loc[p].code]
    /\ UNCHANGED <<users, now, claims, tokensIssued>>

\* -------------------------------------------- POST /complete-registration
\* completeRegistrationSchema: token is a string of at least 10 characters.
completeRegistrationSchemaValid(token) == token # 0

\* Mutant: the status of the request is not checked.
completeRegistrationChecks_NoStatusCheck(registrationRequest, completionToken, t) ==
    IF registrationRequest.id = NULL THEN "REQUEST_NOT_FOUND"
    ELSE IF registrationRequest.completionToken = NULL
            \/ registrationRequest.completionToken # completionToken
    THEN "INVALID_COMPLETION_TOKEN"
    ELSE IF registrationRequest.completionTokenExpires # NULL
            /\ t > registrationRequest.completionTokenExpires
    THEN "COMPLETION_TOKEN_EXPIRED"
    ELSE "OK"

\* Mutant: a rejected request passes the status check as an approved one does.
completeRegistrationChecks_RejectedToo(registrationRequest, completionToken, t) ==
    IF registrationRequest.id = NULL THEN "REQUEST_NOT_FOUND"
    ELSE IF registrationRequest.status \notin {"APPROVED", "REJECTED"}
    THEN "REQUEST_NOT_APPROVED"
    ELSE IF registrationRequest.completionToken = NULL
            \/ registrationRequest.completionToken # completionToken
    THEN "INVALID_COMPLETION_TOKEN"
    ELSE IF registrationRequest.completionTokenExpires # NULL
            /\ t > registrationRequest.completionTokenExpires
    THEN "COMPLETION_TOKEN_EXPIRED"
    ELSE "OK"

\* Mutant: the expiry of the completion token is not checked.
completeRegistrationChecks_NoExpiry(registrationRequest, completionToken, t) ==
    IF registrationRequest.id = NULL THEN "REQUEST_NOT_FOUND"
    ELSE IF registrationRequest.status # "APPROVED" THEN "REQUEST_NOT_APPROVED"
    ELSE IF registrationRequest.completionToken = NULL
            \/ registrationRequest.completionToken # completionToken
    THEN "INVALID_COMPLETION_TOKEN"
    ELSE "OK"

\* The checks of /complete-registration on the row it read: the response code, or "OK".
completeRegistrationChecks(registrationRequest, completionToken, t) ==
    IF registrationRequest.id = NULL THEN "REQUEST_NOT_FOUND"
    ELSE IF registrationRequest.status # "APPROVED" THEN "REQUEST_NOT_APPROVED"
    ELSE IF registrationRequest.completionToken = NULL
            \/ registrationRequest.completionToken # completionToken
    THEN "INVALID_COMPLETION_TOKEN"
    ELSE IF registrationRequest.completionTokenExpires # NULL
            /\ t > registrationRequest.completionTokenExpires
    THEN "COMPLETION_TOKEN_EXPIRED"
    ELSE "OK"

CompleteRegistration_FindRequest(p, email, password, token) ==
    /\ Free(p)
    /\ LET l == [IdleLoc EXCEPT !.op = "complete", !.email = email, !.token = token,
                                !.password = password]
           registrationRequest == findRequestByEmail(email)
           outcome == completeRegistrationChecks(registrationRequest, token, now)
       IN  IF ~completeRegistrationSchemaValid(token)
           THEN Finish(p, l, 400, "Validation error")
           ELSE IF outcome # "OK"
           THEN Finish(p, l, 400, outcome)
           ELSE Await(p, [l EXCEPT !.snapRole = registrationRequest.role],
                      "complete_findUser")
    /\ UNCHANGED <<users, requests, now, claims, tokensIssued, consumed>>

\* prisma.user.findUnique({ where: { email } }), then bcrypt.hash.
CompleteRegistration_FindUser(p) ==
    /\ pc[p] = "complete_findUser"
    /\ IF findUserByEmail(loc[p].email) # NULL
       THEN Finish(p, loc[p], 400, "USER_EXISTS")
       ELSE Await(p, loc[p], "complete_createUser")
    /\ UNCHANGED <<users, requests, now, claims, tokensIssued, consumed>>

\* prisma.user.create: the unique email makes a second insert throw, which the
\* handler's catch turns into a 500.
CompleteRegistration_CreateUser(p) ==
    /\ pc[p] = "complete_createUser"
    /\ IF findUserByEmail(loc[p].email) # NULL
       THEN /\ Finish(p, loc[p], 500, "Internal server error")
            /\ UNCHANGED users
       ELSE /\ users' = Append(users, [email |-> loc[p].email, role |-> loc[p].snapRole,
                                       isActive |-> TRUE,
                                       passwordHash |-> bcryptHash(loc[p].password),
                                       lastLogin |-> NULL])
            /\ Await(p, loc[p], "complete_updateRequest")
    /\ UNCHANGED <<requests, now, claims, tokensIssued, consumed>>

\* Mutant: the update leaves the completion token in place.
completeRegistrationUpdate_KeepsToken(old) == [old EXCEPT !.status = "APPROVED"]

\* prisma.userRegistrationRequest.update: the completion token is invalidated.
completeRegistrationUpdate(old) ==
    [old EXCEPT !.status = "APPROVED", !.completionToken = NULL,
                !.completionTokenExpires = NULL]

CompleteRegistration_UpdateRequest(p) ==
    /\ pc[p] = "complete_updateRequest"
    /\ requests' = [requests EXCEPT ![loc[p].email] = completeRegistrationUpdate(@)]
    /\ Finish(p, loc[p], 200, "OK")
    /\ consumed' = [consumed EXCEPT ![loc[p].email].token = loc[p].token]
    /\ UNCHANGED <<users, now, claims, tokensIssued>>

\* ------------------------------------------------------------ the gates
\* jwt.verify(token, JWT_SECRET): "ok", or the name of the error it throws.
jwtVerify(session, t) ==
    IF session.kind # "jwt" THEN "JsonWebTokenError"
    ELSE IF t >= session.exp THEN "TokenExpiredError"
    ELSE "ok"

\* Mutant: the user's active flag is not checked.
authenticateToken_NoActiveCheck(session, t) ==
    IF session.kind = "none" THEN "MISSING_TOKEN"
    ELSE IF jwtVerify(session, t) = "TokenExpiredError" THEN "TOKEN_EXPIRED"
    ELSE IF jwtVerify(session, t) # "ok" THEN "INVALID_TOKEN"
    ELSE IF findUserById(session.userId) = NULL THEN "INVALID_USER"
    ELSE "next"

\* authenticateToken: the response code, or "next" when it calls next().
authenticateToken(session, t) ==
    IF session.kind = "none" THEN "MISSING_TOKEN"
    ELSE IF jwtVerify(session, t) = "TokenExpiredError" THEN "TOKEN_EXPIRED"
    ELSE IF jwtVerify(session, t) # "ok" THEN "INVALID_TOKEN"
    ELSE IF findUserById(session.userId) = NULL THEN "INVALID_USER"
    ELSE IF ~users[session.userId].isActive THEN "INVALID_USER"
    ELSE "next"

authenticateTokenStatus(code) == IF code = "INVALID_TOKEN" THEN 403 ELSE 401

\* Mutant: any authenticated user passes.
requireRole_AnyRole(roles, reqUser) ==
    IF reqUser = NULL THEN "AUTH_REQUIRED" ELSE "next"

\* Mutant: the role is the one the user had when the session token was signed.
requireRole_TokenClaim(roles, reqUser) ==
    IF reqUser = NULL THEN "AUTH_REQUIRED"
    ELSE IF SeedUsers[reqUser].role \notin roles THEN "INSUFFICIENT_PERMISSIONS"
    ELSE "next"

\* requireRole(roles) on the user authenticateToken attached to the request.
requireRole(roles, reqUser) ==
    IF reqUser = NULL THEN "AUTH_REQUIRED"
    ELSE IF users[reqUser].role \notin roles THEN "INSUFFICIENT_PERMISSIONS"
    ELSE "next"

\* Mutant: a role mismatch is answered like a failed authentication.
requireRoleStatus_Always401(code) == 401

requireRoleStatus(code) == IF code = "AUTH_REQUIRED" THEN 401 ELSE 403

\* authenticateToken, requireRole(['ADMIN']) and the synchronous start of the
\* route handler; `l` holds the route and its parameters.
AdminGate(p, route, session, first) ==
    /\ Free(p)
    /\ LET l == [route EXCEPT !.caller = session]
           auth == authenticateToken(session, now)
           role == requireRole({"ADMIN"}, session.userId)
       IN  IF auth # "next"
           THEN Finish(p, l, authenticateTokenStatus(auth), auth)
           ELSE IF role # "next"
           THEN Finish(p, l, requireRoleStatus(role), role)
           ELSE IF l.op = "reject" /\ l.reason = ""
           THEN Finish(p, l, 400, "MISSING_REASON")
           ELSE Await(p, [l EXCEPT !.reqUser = session.userId], first)
    /\ UNCHANGED <<users, requests, now, claims, tokensIssued, consumed>>

\* req.user is the row authenticateToken read; it has an id and no userId.
reqUserUserId(reqUser) == UNDEFINED

\* ------------------------------- POST /admin/approve-registration/:requestId
ApproveRegistration_Gate(p, session, requestId) ==
    AdminGate(p, [IdleLoc EXCEPT !.op = "approve", !.reqId = requestId], session,
              "approve_findRequest")

\* Mutant: the pending check is missing.
adminDecisionChecks_NoPendingCheck(email) ==
    IF email = "-" THEN "REQUEST_NOT_FOUND" ELSE "OK"

\* The checks shared by approve and reject on the row read by id.
adminDecisionChecks(email) ==
    IF email = "-" THEN "REQUEST_NOT_FOUND"
    ELSE IF requests[email].status # "PENDING" THEN "REQUEST_NOT_PENDING"
    ELSE "OK"

adminDecisionStatus(code) == IF code = "REQUEST_NOT_FOUND" THEN 404 ELSE 400

\* findUnique by id, the pending check, crypto.randomBytes(24) and the 12 hour expiry.
ApproveRegistration_FindRequest(p) ==
    /\ pc[p] = "approve_findRequest"
    /\ LET l == loc[p]
           email == findRequestById(l.reqId)
           outcome == adminDecisionChecks(email)
       IN  IF outcome # "OK"
           THEN /\ Finish(p, l, adminDecisionStatus(outcome), outcome)
                /\ UNCHANGED tokensIssued
           ELSE /\ tokensIssued < MaxTokens
                /\ tokensIssued' = tokensIssued + 1
                /\ Await(p, [l EXCEPT !.email = email, !.token = tokensIssued + 1,
                                      !.genExp = now + CompletionTTL],
                         "approve_update")
    /\ UNCHANGED <<users, requests, now, claims, consumed>>

approveRegistrationUpdate(old, l) ==
    [old EXCEPT !.status = "APPROVED",
                !.approvedBy = prismaSet(@, reqUserUserId(l.reqUser)),
                !.completionToken = l.token,
                !.completionTokenExpires = l.genExp]

ApproveRegistration_Update(p) ==
    /\ pc[p] = "approve_update"
    /\ requests' = [requests EXCEPT ![loc[p].email] = approveRegistrationUpdate(@, loc[p])]
    /\ Await(p, loc[p], "approve_sendEmail")
    /\ UNCHANGED <<users, now, claims, tokensIssued, consumed>>

ApproveRegistration_SendEmail(p) ==
    /\ pc[p] = "approve_sendEmail"
    /\ \E outcome \in MailOutcomes :
         /\ sendRegistrationDecisionEmail(outcome) \in BOOLEAN
         /\ Finish(p, [loc[p] EXCEPT !.mail = outcome], 200, "OK")
    /\ UNCHANGED <<users, requests, now, claims, tokensIssued, consumed>>

\* -------------------------------- POST /admin/reject-registration/:requestId
RejectRegistration_Gate(p, session, requestId, reason) ==
    AdminGate(p, [IdleLoc EXCEPT !.op = "reject", !.reqId = requestId, !.reason = reason],
              session, "reject_findRequest")

RejectRegistration_FindRequest(p) ==
    /\ pc[p] = "reject_findRequest"
    /\ LET l == loc[p]
           email == findRequestById(l.reqId)
           outcome == adminDecisionChecks(email)
       IN  IF outcome # "OK"
           THEN Finish(p, l, adminDecisionStatus(outcome), outcome)
           ELSE Await(p, [l EXCEPT !.email = email], "reject_update")
    /\ UNCHANGED <<users, requests, now, claims, tokensIssued, consumed>>

rejectRegistrationUpdate(old, l) ==
    [old EXCEPT !.status = "REJECTED",
                !.approvedBy = prismaSet(@, reqUserUserId(l.reqUser)),
                !.adminNotes = l.reason]

RejectRegistration_Update(p) ==
    /\ pc[p] = "reject_update"
    /\ requests' = [requests EXCEPT ![loc[p].email] = rejectRegistrationUpdate(@, loc[p])]
    /\ Await(p, loc[p], "reject_sendEmail")
    /\ UNCHANGED <<users, now, claims, tokensIssued, consumed>>

RejectRegistration_SendEmail(p) ==
    /\ pc[p] = "reject_sendEmail"
    /\ \E outcome \in MailOutcomes :
         /\ sendRegistrationDecisionEmail(outcome) \in BOOLEAN
         /\ Finish(p, [loc[p] EXCEPT !.mail = outcome], 200, "OK")
    /\ UNCHANGED <<users, requests, now, claims, tokensIssued, consumed>>

\* ------------------------------------------------- PATCH /:userId/status
UpdateUserStatus_Gate(p, session, userId, isActive) ==
    AdminGate(p, [IdleLoc EXCEPT !.op = "status", !.uid = userId, !.flag = isActive],
              session, "status_update")

\* prisma.user.update throws when no row has the id; the catch answers 500.
UpdateUserStatus_Update(p) ==
    /\ pc[p] = "status_update"
    /\ IF findUserById(loc[p].uid) = NULL
       THEN /\ Finish(p, loc[p], 500, "Internal server error")
            /\ UNCHANGED users
       ELSE /\ users' = [users EXCEPT ![loc[p].uid].isActive = loc[p].flag]
            /\ Finish(p, loc[p], 200, "OK")
    /\ UNCHANGED <<requests, now, claims, tokensIssued, consumed>>

\* ------------------------------------ GET /admin/registration-requests
ListRegistrationRequests_Gate(p, session) ==
    AdminGate(p, [IdleLoc EXCEPT !.op = "list"], session, "list_findMany")

\* prisma.userRegistrationRequest.findMany({ where: {}, include }): with no
\* select, every column of every row.
findManyRequests ==
    {requests[e] : e \in {x \in DOMAIN requests : requests[x].id # NULL}}

\* The rows are kept for the response body.
ListRegistrationRequests_FindMany(p) ==
    /\ pc[p] = "list_findMany"
    /\ Await(p, [loc[p] EXCEPT !.rows = findManyRequests], "list_count")
    /\ UNCHANGED <<users, requests, now, claims, tokensIssued, consumed>>

\* prisma.userRegistrationRequest.count, then res.json({ requests, pagination }).
ListRegistrationRequests_Count(p) ==
    /\ pc[p] = "list_count"
    /\ Finish(p, loc[p], 200, "OK")
    /\ UNCHANGED <<users, requests, now, claims, tokensIssued, consumed>>

\* --------------------------------------------------- PATCH /:userId/role
UpdateUserRole_Gate(p, session, userId, role) ==
    AdminGate(p, [IdleLoc EXCEPT !.op = "role", !.uid = userId, !.role = role],
              session, "role_update")

\* prisma.user.update throws when no row has the id; the catch answers 500.
UpdateUserRole_Update(p) ==
    /\ pc[p] = "role_update"
    /\ IF findUserById(loc[p].uid) = NULL
       THEN /\ Finish(p, loc[p], 500, "Internal server error")
            /\ UNCHANGED users
       ELSE /\ users' = [users EXCEPT ![loc[p].uid].role = loc[p].role]
            /\ Finish(p, loc[p], 200, "OK")
    /\ UNCHANGED <<requests, now, claims, tokensIssued, consumed>>

\* ------------------------------------------------------ POST /auth/login
ShortPassword == "pw"

\* loginSchema: password is a string of at least 6 characters.
loginSchemaValid(password) == password # ShortPassword

\* Validation, prisma.user.findUnique({ where: { email: email.toLowerCase() } }),
\* the active check and bcrypt.compare on the row read.
Login_FindUser(p, email, password) ==
    /\ Free(p)
    /\ LET l == [IdleLoc EXCEPT !.op = "login", !.email = email, !.password = password]
           user == findUserByEmail(toLowerCase(email))
       IN  IF ~loginSchemaValid(password)
           THEN Finish(p, l, 400, "Validation error")
           ELSE IF user = NULL
           THEN Finish(p, l, 401, "INVALID_CREDENTIALS")
           ELSE IF ~users[user].isActive
           THEN Finish(p, l, 401, "ACCOUNT_DEACTIVATED")
           ELSE IF ~bcryptCompare(password, users[user].passwordHash)
           THEN Finish(p, l, 401, "INVALID_CREDENTIALS")
           ELSE Await(p, [l EXCEPT !.uid = user, !.snapRole = users[user].role],
                      "login_update")
    /\ UNCHANGED <<users, requests, now, claims, tokensIssued, consumed>>

\* prisma.user.update({ data: { lastLogin } }), then jwt.sign with the id and
\* the role of the row read before, valid for 24 hours.
Login_Update(p) ==
    /\ pc[p] = "login_update"
    /\ users' = [users EXCEPT ![loc[p].uid].lastLogin = now]
    /\ Finish(p, [loc[p] EXCEPT !.role = loc[p].snapRole,
                                !.caller = Jwt(loc[p].uid, now + SessionTTL)],
              200, "OK")
    /\ UNCHANGED <<requests, now, claims, tokensIssued, consumed>>

\* ---------------------------------------------------- POST /auth/refresh
\* jwt.verify(refreshToken, JWT_REFRESH_SECRET): "ok", or the error it throws.
jwtVerifyRefresh(refreshToken, t) ==
    IF refreshToken.kind # "refresh" THEN "JsonWebTokenError"
    ELSE IF t >= refreshToken.exp THEN "TokenExpiredError"
    ELSE "ok"

\* The handler's `prisma` is the name the module does not declare (see
\* /register): the lookup either throws a ReferenceError, which the catch
\* answers like an invalid token, or reads the user.
Refresh(p, refreshToken) ==
    /\ Free(p)
    /\ LET l == [IdleLoc EXCEPT !.op = "refresh", !.caller = refreshToken]
           user == findUserById(refreshToken.userId)
       IN  IF refreshToken.kind = "none"
           THEN Finish(p, l, 401, "MISSING_REFRESH_TOKEN")
           ELSE IF jwtVerifyRefresh(refreshToken, now) # "ok"
           THEN Finish(p, l, 401, "INVALID_REFRESH_TOKEN")
           ELSE \/ Finish(p, l, 401, "INVALID_REFRESH_TOKEN")
                \/ IF user = NULL \/ ~users[user].isActive
                   THEN Finish(p, l, 401, "INVALID_REFRESH_TOKEN")
                   ELSE Finish(p, [l EXCEPT !.issued = Jwt(user, now + SessionTTL),
                                            !.role = users[user].role],
                               200, "OK")
    /\ UNCHANGED <<users, requests, now, claims, tokensIssued, consumed>>

\* --------------------------------------------------- POST /auth/register
\* registerSchema: any of the five roles, password of at least 8 characters.
registerSchemaValid(password, role) == role \in Roles /\ password # ShortPassword

\* The route has no gate in front of it.  Its `prisma` is not declared in the
\* module (only inside the login handler): unless the process defines a global
\* of that name the lookup throws a ReferenceError, which the catch answers
\* with 500.  Both outcomes are kept.
Register_FindUser(p, email, password, role) ==
    /\ Free(p)
    /\ LET l == [IdleLoc EXCEPT !.op = "register", !.email = email,
                                !.password = password, !.role = role]
       IN  IF ~registerSchemaValid(password, role)
           THEN Finish(p, l, 400, "Validation error")
           ELSE \/ Finish(p, l, 500, "INTERNAL_ERROR")
                \/ IF findUserByEmail(toLowerCase(email)) # NULL
                   THEN Finish(p, l, 409, "USER_EXISTS")
                   ELSE Await(p, l, "register_create")
    /\ UNCHANGED <<users, requests, now, claims, tokensIssued, consumed>>

\* bcrypt.hash, then prisma.user.create with the lower-cased email; the unique
\* email makes a second insert throw.
Register_Create(p) ==
    /\ pc[p] = "register_create"
    /\ IF findUserByEmail(toLowerCase(loc[p].email)) # NULL
       THEN /\ Finish(p, loc[p], 500, "INTERNAL_ERROR")
            /\ UNCHANGED users
       ELSE /\ users' = Append(users, [email |-> toLowerCase(loc[p].email),
                                       role |-> loc[p].role, isActive |-> TRUE,
                                       passwordHash |-> bcryptHash(loc[p].password),
                                       lastLogin |-> NULL])
            /\ Finish(p, loc[p], 201, "OK")
    /\ UNCHANGED <<requests, now, claims, tokensIssued, consumed>>

\* ------------------------------------------------- billing: claim numbers
\* `${prefix}${nextNumber.toString().padStart(6, '0')}`.  Up to 999999 the padded
\* digits are ordered as strings the way the numbers are, so they are kept as
\* the number.
formatClaimNumber(nextNumber) == <<ClaimPrefix, nextNumber>>

\* parseInt(lastClaim.claimNumber.replace(prefix, ''))
parseClaimNumber(claimNumber) == claimNumber[2]

\* prisma.claim.findFirst({ where: { claimNumber: { startsWith: prefix } },
\* orderBy: { claimNumber: 'desc' } }): the index of the row, or NULL.
findLastClaim ==
    LET numbered == {i \in 1..Len(claims) :
                        /\ claims[i].claimNumber # NoClaimNumber
                        /\ claims[i].claimNumber[1] = ClaimPrefix}
    IN  IF numbered = {} THEN NULL
        ELSE CHOOSE i \in numbered :
                 \A j \in numbered :
                     parseClaimNumber(claims[j].claimNumber)
                         <= parseClaimNumber(claims[i].claimNumber)

\* generateClaimNumber: one more than the highest number stored this year.
generateClaimNumber ==
    LET lastClaim == findLastClaim
    IN  IF lastClaim # NULL /\ claims[lastClaim].claimNumber # NoClaimNumber
        THEN formatClaimNumber(parseClaimNumber(claims[lastClaim].claimNumber) + 1)
        ELSE formatClaimNumber(1)

\* router.use(authenticateToken), then requireRole(['BILLER', 'ADMIN']).
BillingGate(p, route, session, first) ==
    /\ Free(p)
    /\ LET l == [route EXCEPT !.caller = session]
           auth == authenticateToken(session, now)
           role == requireRole({"BILLER", "ADMIN"}, session.userId)
       IN  IF auth # "next"
           THEN Finish(p, l, authenticateTokenStatus(auth), auth)
           ELSE IF role # "next"
           THEN Finish(p, l, requireRoleStatus(role), role)
           ELSE Await(p, [l EXCEPT !.reqUser = session.userId], first)
    /\ UNCHANGED <<users, requests, now, claims, tokensIssued, consumed>>

\* Another row already holds the claim number.
claimNumberTaken(claimNumber, except) ==
    \E i \in 1..Len(claims) :
        i # except /\ claimNumber # NoClaimNumber /\ claims[i].claimNumber = claimNumber

\* POST /claims
CreateClaim_Gate(p, session) ==
    BillingGate(p, [IdleLoc EXCEPT !.op = "createClaim"], session, "createClaim_findFirst")

\* const claimNumber = await generateClaimNumber()
CreateClaim_FindFirst(p) ==
    /\ pc[p] = "createClaim_findFirst"
    /\ Await(p, [loc[p] EXCEPT !.claimNumber = generateClaimNumber], "createClaim_create")
    /\ UNCHANGED <<users, requests, now, claims, tokensIssued, consumed>>

\* prisma.claim.create.  The schema of the store is not part of the sources: if
\* it declares the claim number unique, writing a number another row holds
\* throws, which the catch answers with 500; if not, the row is written.
CreateClaim_Create(p) ==
    /\ pc[p] = "createClaim_create"
    /\ Len(claims) < MaxClaims
    /\ \/ /\ claimNumberTaken(loc[p].claimNumber, 0)
          /\ Finish(p, loc[p], 500, "Internal server error")
          /\ UNCHANGED claims
       \/ /\ claims' = Append(claims, [claimNumber |-> loc[p].claimNumber,
                                        status |-> "PENDING"])
          /\ Finish(p, loc[p], 201, "OK")
    /\ UNCHANGED <<users, requests, now, tokensIssued, consumed>>

\* PATCH /claims/:claimId/status
UpdateClaimStatus_Gate(p, session, claimId, status) ==
    BillingGate(p, [IdleLoc EXCEPT !.op = "claimStatus", !.claimId = claimId,
                                   !.claimStatus = status],
                session, "claimStatus_findUnique")

\* prisma.claim.findUnique({ where: { id } }).  With no such claim, reading
\* currentClaim.submissionDate throws for SUBMITTED and the update throws for
\* any other status; the catch answers 500 either way.
UpdateClaimStatus_FindUnique(p) ==
    /\ pc[p] = "claimStatus_findUnique"
    /\ LET l == loc[p] IN
       IF l.claimId \notin 1..Len(claims)
       THEN Finish(p, l, 500, "Internal server error")
       ELSE IF l.claimStatus = "SUBMITTED" /\ claims[l.claimId].claimNumber = NoClaimNumber
       THEN Await(p, l, "claimStatus_findFirst")
       ELSE Await(p, l, "claimStatus_update")
    /\ UNCHANGED <<users, requests, now, claims, tokensIssued, consumed>>

\* updateData.claimNumber = await generateClaimNumber()
UpdateClaimStatus_FindFirst(p) ==
    /\ pc[p] = "claimStatus_findFirst"
    /\ Await(p, [loc[p] EXCEPT !.claimNumber = generateClaimNumber], "claimStatus_update")
    /\ UNCHANGED <<users, requests, now, claims, tokensIssued, consumed>>

\* prisma.claim.update({ where: { id }, data: updateData }): a claim number that
\* was not generated is undefined in updateData and the column is left alone.
updateClaim(old, l) ==
    [old EXCEPT !.status = l.claimStatus,
                !.claimNumber = IF l.claimNumber = NoClaimNumber THEN @ ELSE l.claimNumber]

UpdateClaimStatus_Update(p) ==
    /\ pc[p] = "claimStatus_update"
    /\ \/ /\ claimNumberTaken(loc[p].claimNumber, loc[p].claimId)
          /\ Finish(p, loc[p], 500, "Internal server error")
          /\ UNCHANGED claims
       \/ /\ claims' = [claims EXCEPT ![loc[p].claimId] = updateClaim(@, loc[p])]
          /\ Finish(p, loc[p], 200, "OK")
    /\ UNCHANGED <<users, requests, now, tokensIssued, consumed>>

\* ------------------------------------------------------- specifications
\* One step of the handler running in slot p, or a new request, drawn from the
\* inputs `in`, entering it.
Step(p, in) ==
    \/ \E email \in in.emails, role \in in.roles : RequestRegistration_FindUser(p, email, role)
    \/ RequestRegistration_FindRequest(p)
    \/ RequestRegistration_Upsert(p)
    \/ RequestRegistration_SendEmail(p)
    \/ \E email \in in.emails, code \in in.codes : VerifyEmail_Find(p, email, code)
    \/ VerifyEmail_Update(p)
    \/ \E email \in in.emails, password \in in.passwords, token \in in.tokens :
          CompleteRegistration_FindRequest(p, email, password, token)
    \/ CompleteRegistration_FindUser(p)
    \/ CompleteRegistration_CreateUser(p)
    \/ CompleteRegistration_UpdateRequest(p)
    \/ \E a \in in.approve : ApproveRegistration_Gate(p, a[1], a[2])
    \/ ApproveRegistration_FindRequest(p)
    \/ ApproveRegistration_Update(p)
    \/ ApproveRegistration_SendEmail(p)
    \/ \E a \in in.reject : RejectRegistration_Gate(p, a[1], a[2], a[3])
    \/ RejectRegistration_FindRequest(p)
    \/ RejectRegistration_Update(p)
    \/ RejectRegistration_SendEmail(p)
    \/ \E a \in in.status : UpdateUserStatus_Gate(p, a[1], a[2], a[3])
    \/ UpdateUserStatus_Update(p)

\* Requests are served one after another.
Next == Tick \/ Step(1, AllInputs)

Spec == Init /\ [][Next]_vars

\* Well-formed requests are served concurrently: handlers interleave at their
\* awaits.  The clock stands still meanwhile: its unit is 12 hours.
NextConcurrent == \E p \in Procs : Step(p, WellFormedInputs)

SpecConcurrent == Init /\ [][NextConcurrent]_vars

\* The gated routes and direct user creation next to the registration workflow;
\* requests are served one after another, within every expiry window (the
\* clock stands still).
AccountInputs ==
    [emails |-> EmailInputs,
     roles |-> {"CLINICIAN"},
     codes |-> {111111},
     tokens |-> 1..MaxTokens,
     passwords |-> {Password},
     approve |-> {<<s, 1>> : s \in OtherSessions \cup {AdminSession}},
     reject |-> {<<s, 1, "incomplete info">> : s \in {NurseSession, AdminSession}},
     status |-> {<<AdminSession, 2, FALSE>>, <<NurseSession, 1, FALSE>>},
     list |-> OtherSessions \cup {AdminSession, Jwt(1, 0)},
     role |-> {<<AdminSession, 2, "ADMIN">>, <<NurseSession, 1, "CLINICIAN">>,
               <<NurseSession, 2, "CLINICIAN">>, <<NoSession, 2, "ADMIN">>},
     register |-> {<<MixedCaseEmail, Password, "ADMIN">>, <<NewEmail, ShortPassword, "ADMIN">>},
     refresh |-> {NoSession, ForgedSession, NurseSession,
                  RefreshJwt(2, MaxTime + SessionTTL), RefreshJwt(2, 0),
                  RefreshJwt(9, MaxTime + SessionTTL)}]

AccountStep(p, in) ==
    \/ \E s \in in.list : ListRegistrationRequests_Gate(p, s)
    \/ ListRegistrationRequests_FindMany(p)
    \/ ListRegistrationRequests_Count(p)
    \/ \E a \in in.role : UpdateUserRole_Gate(p, a[1], a[2], a[3])
    \/ UpdateUserRole_Update(p)
    \/ \E a \in in.register : Register_FindUser(p, a[1], a[2], a[3])
    \/ Register_Create(p)
    \/ \E t \in in.refresh : Refresh(p, t)

NextAccounts == Step(1, AccountInputs) \/ AccountStep(1, AccountInputs)

SpecAccounts == Init /\ [][NextAccounts]_vars

\* Registration and login for two addresses that differ in case only; requests
\* are served one after another, within every expiry window.
LoginEmails == {NewEmail, MixedCaseEmail}

LoginInputs ==
    [emails |-> LoginEmails,
     roles |-> {"CLINICIAN"},
     codes |-> {111111},
     tokens |-> 1..MaxTokens,
     passwords |-> {Password},
     approve |-> {<<AdminSession, id>> : id \in {1, 2}},
     reject |-> {<<AdminSession, 2, "incomplete info">>},
     status |-> {<<AdminSession, 3, FALSE>>},
     login |-> {<<e, Password>> : e \in LoginEmails}
               \cup {<<NewEmail, "wrong horse">>, <<NewEmail, ShortPassword>>}]

LoginStep(p, in) ==
    \/ \E a \in in.login : Login_FindUser(p, a[1], a[2])
    \/ Login_Update(p)

InitLogin ==
    /\ users = SeedUsers
    /\ requests = [e \in LoginEmails |-> NoRequest]
    /\ now = 0
    /\ tokensIssued = 0
    /\ pc = [p \in Procs |-> "idle"]
    /\ loc = [p \in Procs |-> IdleLoc]
    /\ resp = [p \in Procs |-> NoResp]
    /\ consumed = [e \in LoginEmails |-> NothingConsumed]
    /\ claims = <<>>

NextLogin == Step(1, LoginInputs) \/ LoginStep(1, LoginInputs)

SpecLogin == InitLogin /\ [][NextLogin]_vars

\* The billing routes that number claims, two requests in flight.  The store
\* starts with one claim that has no number yet (the column is optional: the
\* status handler generates a number only for a claim without one).
ClaimInputs ==
    [create |-> {AdminSession, NurseSession},
     status |-> {<<AdminSession, id, "SUBMITTED">> : id \in 1..2}
                   \cup {<<AdminSession, 1, "PAID">>}]

ClaimStep(p, in) ==
    \/ \E s \in in.create : CreateClaim_Gate(p, s)
    \/ CreateClaim_FindFirst(p)
    \/ CreateClaim_Create(p)
    \/ \E a \in in.status : UpdateClaimStatus_Gate(p, a[1], a[2], a[3])
    \/ UpdateClaimStatus_FindUnique(p)
    \/ UpdateClaimStatus_FindFirst(p)
    \/ UpdateClaimStatus_Update(p)

InitClaims ==
    /\ users = SeedUsers
    /\ requests = [e \in EmailInputs |-> NoRequest]
    /\ now = 0
    /\ tokensIssued = 0
    /\ pc = [p \in Procs |-> "idle"]
    /\ loc = [p \in Procs |-> IdleLoc]
    /\ resp = [p \in Procs |-> NoResp]
    /\ consumed = [e \in EmailInputs |-> NothingConsumed]
    /\ claims = <<[claimNumber |-> NoClaimNumber, status |-> "DRAFT"]>>

NextClaims == \E p \in Procs : ClaimStep(p, ClaimInputs)

SpecClaims == InitClaims /\ [][NextClaims]_vars

\* ------------------------------------------------------------ the claims
\* In this step slot p took a request for route op and now awaits a store call.
Admitted(p, op) == pc[p] = "idle" /\ pc'[p] # "idle" /\ loc'[p].op = op

\* In this step slot p took a request for route op and answered it at once.
Answered(p, op) ==
    pc[p] = "idle" /\ pc'[p] = "idle" /\ resp'[p] # resp[p] /\ resp'[p].op = op

Called(p, op) == Admitted(p, op) \/ Answered(p, op)

\* The code or token, the role and the bearer token of the request slot p took.
PresentedNow(p) == IF pc'[p] = "idle" THEN resp'[p].arg ELSE presented(loc'[p])
RoleNow(p) == IF pc'[p] = "idle" THEN resp'[p].role ELSE loc'[p].role
CallerNow(p) == IF pc'[p] = "idle" THEN resp'[p].caller ELSE loc'[p].caller
EmailNow(p) == IF pc'[p] = "idle" THEN resp'[p].email ELSE loc'[p].email
PasswordNow(p) == IF pc'[p] = "idle" THEN resp'[p].password ELSE loc'[p].password

\* Slot p's handler leaves the await `label` in this step.
Leaves(p, label) == pc[p] = label /\ pc'[p] # label

TheRequest == requests[NewEmail]

\* Verify on a pending request with its unexpired code is admitted and, at its
\* update, answers OK and clears the code; a later Verify with the code that was
\* used up, no Request in between, is answered `whenPending` while the request
\* is pending and REQUEST_NOT_PENDING otherwise, and writes nothing.
VerifyOnce(whenPending) ==
    \A p \in Procs :
        /\ ( /\ Called(p, "verify")
             /\ TheRequest.status = "PENDING"
             /\ TheRequest.verificationCode # NULL
             /\ PresentedNow(p) = TheRequest.verificationCode
             /\ now <= TheRequest.verificationExpires )
           => Admitted(p, "verify")
        /\ Leaves(p, "verify_update")
           => /\ resp'[p].code = "OK"
              /\ requests'[NewEmail].verificationCode = NULL
        /\ ( /\ Called(p, "verify")
             /\ consumed[NewEmail].code # NULL
             /\ PresentedNow(p) = consumed[NewEmail].code )
           => /\ Answered(p, "verify")
              /\ resp'[p].http = 400
              /\ resp'[p].code = IF TheRequest.status = "PENDING" THEN whenPending
                                 ELSE "REQUEST_NOT_PENDING"
              /\ requests' = requests

\* C1 as claimed: with requests served one after another, Verify with the
\* unexpired code of a pending request succeeds, and a later Verify with the same
\* code (no Request in between) fails with REQUEST_NOT_PENDING.
C1_VerifyOnce_AsClaimed == [][VerifyOnce("REQUEST_NOT_PENDING")]_vars

\* C1 as amended: the later Verify fails with INVALID_CODE while the request is
\* still pending (Verify clears the code and leaves the status), and with
\* REQUEST_NOT_PENDING once the request has been approved or rejected; so Verify
\* never succeeds twice for the same issued code.
C1_VerifyOnce == [][VerifyOnce("INVALID_CODE")]_vars

\* A second Verify with the used-up code was answered INVALID_CODE.
C1_Witness ==
    /\ resp[1].op = "verify"
    /\ resp[1].code = "INVALID_CODE"
    /\ resp[1].arg = consumed[NewEmail].code
    /\ TheRequest.status = "PENDING"

\* C2: with requests served one after another, a successful Complete leaves the
\* stored completion token null, and every later Complete presenting the token it
\* used is answered INVALID_COMPLETION_TOKEN at once and creates no user.
C2_TokenSingleUse ==
    /\ [](consumed[NewEmail].token # NULL => TheRequest.completionToken = NULL)
    /\ [][\A p \in Procs :
            /\ Leaves(p, "complete_updateRequest")
               => /\ resp'[p].code = "OK"
                  /\ requests'[NewEmail].completionToken = NULL
                  /\ consumed'[NewEmail].token = resp'[p].arg
            /\ ( /\ Called(p, "complete")
                 /\ consumed[NewEmail].token # NULL
                 /\ PresentedNow(p) = consumed[NewEmail].token )
               => /\ Answered(p, "complete")
                  /\ resp'[p].http = 400
                  /\ resp'[p].code = "INVALID_COMPLETION_TOKEN"
                  /\ store' = store
            /\ consumed[NewEmail].token # NULL => Len(users') = Len(users)]_vars

\* A Complete replaying the used-up token was answered INVALID_COMPLETION_TOKEN.
C2_Witness ==
    /\ resp[1].op = "complete"
    /\ resp[1].code = "INVALID_COMPLETION_TOKEN"
    /\ resp[1].arg = consumed[NewEmail].token
    /\ findUserByEmail(NewEmail) # NULL

\* C3: a Request for role ADMIN is answered 400 at once and writes nothing; no
\* registration request ever has role ADMIN, and every user Complete creates has
\* the role of the request, which is not ADMIN.
C3_NoSelfServiceAdmin ==
    /\ [](TheRequest.role # "ADMIN")
    /\ [][\A p \in Procs :
            /\ (Called(p, "request") /\ RoleNow(p) = "ADMIN")
               => /\ Answered(p, "request")
                  /\ resp'[p].http = 400
                  /\ store' = store
            /\ Len(users') > Len(users)
               => /\ users'[Len(users')].role # "ADMIN"
                  /\ users'[Len(users')].role = TheRequest.role]_vars

\* A Request for role ADMIN was refused and there is no registration request.
C3_Witness ==
    /\ resp[1].op = "request"
    /\ resp[1].role = "ADMIN"
    /\ resp[1].http = 400
    /\ TheRequest.id = NULL

ProtectedRoutes == {"approve", "reject", "status"}

\* C4: under any interleaving, a protected request whose bearer token verifies
\* (signed, unexpired) and whose user is absent or inactive when the gate looks
\* it up is answered 401 INVALID_USER at once: its handler is not entered.
C4_InactiveUserRejected ==
    [][\A p \in Procs, op \in ProtectedRoutes :
         ( /\ Called(p, op)
           /\ CallerNow(p).kind = "jwt"
           /\ now < CallerNow(p).exp
           /\ \/ CallerNow(p).userId \notin 1..Len(users)
              \/ ~users[CallerNow(p).userId].isActive )
         => /\ Answered(p, op)
            /\ resp'[p].http = 401
            /\ resp'[p].code = "INVALID_USER"
            /\ store' = store]_vars

\* The administrator was deactivated while one of their requests was being
\* handled; their next request, with the same valid token, was refused.
C4_Witness ==
    /\ ~users[1].isActive
    /\ pc[1] # "idle" /\ loc[1].reqUser = 1
    /\ resp[2].code = "INVALID_USER" /\ resp[2].caller = AdminSession

\* C5: of the decisions (approve, reject) that run concurrently on one pending
\* request only one is committed: a decision is written only while the request
\* is still PENDING, so the loser's write never replaces the winner's.
C5_SingleWinner ==
    [][\A p \in Procs :
         (Leaves(p, "approve_update") \/ Leaves(p, "reject_update"))
         => requests[loc[p].email].status = "PENDING"]_vars

\* C6: with requests served one after another, approve and reject are committed
\* and answered OK only on a PENDING request, leave it APPROVED or REJECTED, and
\* on a request that is not PENDING they answer 400 REQUEST_NOT_PENDING and
\* write nothing; only the upsert of a new Request makes it PENDING again.
C6_DecideOnlyPending ==
    [][/\ \A p \in Procs :
            /\ ( /\ Leaves(p, "approve_findRequest") \/ Leaves(p, "reject_findRequest")
                 /\ loc[p].reqId = TheRequest.id
                 /\ TheRequest.status # "PENDING" )
               => /\ pc'[p] = "idle"
                  /\ resp'[p].http = 400
                  /\ resp'[p].code = "REQUEST_NOT_PENDING"
                  /\ store' = store
            /\ (Leaves(p, "approve_update") \/ Leaves(p, "reject_update"))
               => /\ TheRequest.status = "PENDING"
                  /\ requests'[NewEmail].status \in {"APPROVED", "REJECTED"}
            /\ (resp'[p] # resp[p] /\ resp'[p].op \in {"approve", "reject"}
                   /\ resp'[p].code = "OK")
               => /\ Leaves(p, "approve_sendEmail") \/ Leaves(p, "reject_sendEmail")
                  /\ TheRequest.status \in {"APPROVED", "REJECTED"}
       /\ (TheRequest.status \in {"APPROVED", "REJECTED"}
              /\ requests'[NewEmail].status = "PENDING")
          => \E q \in Procs : Leaves(q, "request_upsert")]_vars

\* A Reject on an approved request was answered REQUEST_NOT_PENDING.
C6_Witness ==
    /\ resp[1].op = "reject"
    /\ resp[1].code = "REQUEST_NOT_PENDING"
    /\ TheRequest.status = "APPROVED"
    /\ TheRequest.completionToken # NULL

\* C7 as claimed: once REJECTED, the status never changes again.
C7_RejectedTerminal_AsClaimed ==
    [][TheRequest.status = "REJECTED" => requests'[NewEmail].status = "REJECTED"]_vars

\* C7 as amended: with requests served one after another, a REJECTED request is
\* changed by no Verify, Approve, Reject or Complete; the only step that changes
\* it is the upsert of a new Request, which returns it to PENDING.
C7_RejectedUntilRequested ==
    [][(TheRequest.status = "REJECTED" /\ requests'[NewEmail] # TheRequest)
       => /\ \E p \in Procs : Leaves(p, "request_upsert") /\ loc[p].op = "request"
          /\ requests'[NewEmail].status = "PENDING"]_vars

\* A new Request was accepted for a rejected request, which is PENDING again
\* (the notes of the rejection are still on the row).
C7_Witness ==
    /\ resp[1].op = "request"
    /\ resp[1].code = "OK"
    /\ TheRequest.status = "PENDING"
    /\ TheRequest.adminNotes = "incomplete info"

\* C8: a request becomes APPROVED only from the verified state: PENDING with the
\* verification code cleared.
C8_ApprovedOnlyWhenVerified ==
    [][(requests'[NewEmail].status = "APPROVED" /\ TheRequest.status # "APPROVED")
       => /\ TheRequest.status = "PENDING"
          /\ TheRequest.verificationCode = NULL]_vars

\* C9: Verify with the stored code of a pending request, later than the code's
\* expiry, is answered 400 CODE_EXPIRED at once and leaves the request as it is;
\* Verify passes its checks only with the stored code and not after its expiry.
C9_ExpiredCodeRejected ==
    [][\A p \in Procs :
         /\ ( /\ Called(p, "verify")
              /\ TheRequest.status = "PENDING"
              /\ TheRequest.verificationCode # NULL
              /\ PresentedNow(p) = TheRequest.verificationCode
              /\ now > TheRequest.verificationExpires )
            => /\ Answered(p, "verify")
               /\ resp'[p].http = 400
               /\ resp'[p].code = "CODE_EXPIRED"
               /\ store' = store
         /\ Admitted(p, "verify")
            => /\ PresentedNow(p) = TheRequest.verificationCode
               /\ now <= TheRequest.verificationExpires]_vars

\* Verify with the stored code was answered CODE_EXPIRED; the code is still stored.
C9_Witness ==
    /\ resp[1].op = "verify"
    /\ resp[1].code = "CODE_EXPIRED"
    /\ resp[1].arg = TheRequest.verificationCode
    /\ now > TheRequest.verificationExpires
    /\ TheRequest.status = "PENDING"

\* C10: Complete with the stored token of an approved request, later than the
\* token's expiry, is answered 400 COMPLETION_TOKEN_EXPIRED at once, creates no
\* user and leaves the request as it is; Complete passes its checks, and so
\* creates a user, only with the stored token and not after its expiry.
C10_ExpiredTokenRejected ==
    [][\A p \in Procs :
         /\ ( /\ Called(p, "complete")
              /\ TheRequest.status = "APPROVED"
              /\ TheRequest.completionToken # NULL
              /\ PresentedNow(p) = TheRequest.completionToken
              /\ now > TheRequest.completionTokenExpires )
            => /\ Answered(p, "complete")
               /\ resp'[p].http = 400
               /\ resp'[p].code = "COMPLETION_TOKEN_EXPIRED"
               /\ store' = store
         /\ Admitted(p, "complete")
            => /\ PresentedNow(p) = TheRequest.completionToken
               /\ now <= TheRequest.completionTokenExpires
         /\ Len(users') > Len(users) => Leaves(1, "complete_createUser")]_vars

\* Complete with the stored token was answered COMPLETION_TOKEN_EXPIRED; the
\* request is still APPROVED and holds the token, and no user was created.
C10_Witness ==
    /\ resp[1].op = "complete"
    /\ resp[1].code = "COMPLETION_TOKEN_EXPIRED"
    /\ resp[1].arg = TheRequest.completionToken
    /\ now > TheRequest.completionTokenExpires
    /\ TheRequest.status = "APPROVED"
    /\ findUserByEmail(NewEmail) = NULL

\* C11: after Request, Verify, Approve and Complete for an email, Login with
\* that email and the password given to Complete succeeds: a Login naming the
\* address of an active user that Complete created, with that user's password,
\* passes its checks as that user and with the role stored for them.
C11_LoginAfterCompletion ==
    [][\A p \in Procs :
         LET u == findUserByEmail(EmailNow(p)) IN
         ( /\ Called(p, "login")
           /\ u # NULL /\ u > Len(SeedUsers)
           /\ users[u].isActive
           /\ bcryptCompare(PasswordNow(p), users[u].passwordHash) )
         => /\ Admitted(p, "login")
            /\ loc'[p].uid = u
            /\ loc'[p].snapRole = users[u].role]_vars

\* C12: with requests served one after another, a Request that finds the
\* email's request PENDING is answered 400 REQUEST_PENDING and writes nothing;
\* the upsert runs only on a request that is not PENDING; and the row of an
\* email, once created, keeps its id: no second request is created for it.
C12_PendingRequestKept ==
    [][/\ \A p \in Procs :
            /\ (Leaves(p, "request_findRequest")
                   /\ requests[loc[p].email].status = "PENDING")
               => /\ pc'[p] = "idle"
                  /\ resp'[p].http = 400
                  /\ resp'[p].code = "REQUEST_PENDING"
                  /\ store' = store
            /\ Leaves(p, "request_upsert") => requests[loc[p].email].status # "PENDING"
       /\ \A e \in DOMAIN requests :
            requests[e].id # NULL => requests'[e].id = requests[e].id]_vars

\* A second Request was answered REQUEST_PENDING; the request still holds its code.
C12_Witness ==
    /\ resp[1].op = "request"
    /\ resp[1].code = "REQUEST_PENDING"
    /\ TheRequest.status = "PENDING"
    /\ TheRequest.verificationCode # NULL

AdminRoutes == {"list", "approve", "reject"}
GatedRoutes == AdminRoutes \cup {"status", "role"}

\* The bearer token s verifies now and names an active user whose stored role is ADMIN.
ActiveAdmin(s) ==
    /\ s.kind = "jwt" /\ now < s.exp
    /\ s.userId \in 1..Len(users)
    /\ users[s.userId].isActive
    /\ users[s.userId].role = "ADMIN"

\* The request slot p took got past both gates: its handler started.
GatesPassed(p, op) ==
    Admitted(p, op) \/ (Answered(p, op) /\ resp'[p].code = "MISSING_REASON")

\* C14: list, approve and reject get past the gates only for a caller whose
\* token verifies and whose user is active with stored role ADMIN; for every
\* other caller they are answered 401 or 403 at once and write nothing; a
\* registration request is written by approve or reject only in a handler that
\* got past the gates.
C14_AdminOnly ==
    [][\A p \in Procs :
         /\ \A op \in AdminRoutes :
              /\ (Called(p, op) /\ ~ActiveAdmin(CallerNow(p)))
                 => /\ Answered(p, op)
                    /\ resp'[p].http \in {401, 403}
                    /\ store' = store
              /\ GatesPassed(p, op) => ActiveAdmin(CallerNow(p))
         /\ (Leaves(p, "approve_update") \/ Leaves(p, "reject_update")
                \/ Leaves(p, "list_findMany"))
            => loc[p].reqUser # NULL]_vars

\* The seeded administrator was demoted; their token, still valid, was refused
\* with 403 on an admin route and the pending request is as it was.
C14_Witness ==
    /\ resp[1].op \in AdminRoutes
    /\ resp[1].caller = AdminSession
    /\ resp[1].code = "INSUFFICIENT_PERMISSIONS"
    /\ users[1].isActive /\ users[1].role # "ADMIN"
    /\ TheRequest.status = "PENDING"

\* C15: a user with role ADMIN comes to exist, and the role or the active flag
\* of a user changes, only in a step of a handler whose caller got past the
\* gates as an active ADMIN.
C15_ElevationByAdminOnly ==
    [][( \/ \E i \in 1..Len(users') :
              /\ users'[i].role = "ADMIN"
              /\ i > Len(users) \/ users[i].role # "ADMIN"
         \/ \E i \in 1..Len(users) :
              users'[i].role # users[i].role \/ users'[i].isActive # users[i].isActive )
       => \E p \in Procs : pc[p] # "idle" /\ pc'[p] # pc[p] /\ loc[p].reqUser # NULL]_vars

\* C16: in every state, a user existing for an email means the email's
\* registration request holds no completion token.
C16_CompleteAtomic ==
    \A e \in DOMAIN requests :
        findUserByEmail(e) # NULL => requests[e].completionToken = NULL

\* C17: of the Complete calls that run concurrently with the same valid token,
\* one creates the user and every other one is answered USER_EXISTS: a Complete
\* that passed its token checks and creates no user ends with that answer.
C17_LoserGetsConflict ==
    [][\A p \in Procs :
         ( /\ pc[p] \in {"complete_findUser", "complete_createUser"}
           /\ pc'[p] = "idle" )
         => /\ resp'[p].http = 400
            /\ resp'[p].code = "USER_EXISTS"]_vars

\* C18: of the Request calls that run concurrently for one email only one is
\* committed: the upsert of a Request runs only while the email has no PENDING
\* request, so the loser neither replaces the winner's code nor notifies one.
C18_SingleRequestWinner ==
    [][\A p \in Procs :
         Leaves(p, "request_upsert") => requests[loc[p].email].status # "PENDING"]_vars

\* C19: a request that passes the authentication gate gets past the
\* authorization gate exactly when the role the store holds for its user at
\* that moment is in the route's allowed set (ADMIN, on every gated route
\* here); otherwise it is answered 403 INSUFFICIENT_PERMISSIONS at once.
C19_StoredRoleDecides ==
    [][\A p \in Procs, op \in GatedRoutes :
         LET s == CallerNow(p) IN
         ( /\ Called(p, op)
           /\ s.kind = "jwt" /\ now < s.exp
           /\ s.userId \in 1..Len(users) /\ users[s.userId].isActive )
         => /\ GatesPassed(p, op) <=> users[s.userId].role \in {"ADMIN"}
            /\ ~GatesPassed(p, op)
               => /\ Answered(p, op)
                  /\ resp'[p].http = 403
                  /\ resp'[p].code = "INSUFFICIENT_PERMISSIONS"
                  /\ store' = store]_vars

\* The clinician was promoted to ADMIN: a request carrying the token signed for
\* them as a clinician got past the gates of a route that requires ADMIN.
C19_Witness ==
    /\ pc[1] # "idle"
    /\ loc[1].caller = NurseSession
    /\ loc[1].reqUser = 2
    /\ SeedUsers[2].role # "ADMIN"
    /\ users[2].role = "ADMIN"

\* What the gates answer to the request slot p took on a gated route: `invalid`
\* is the status for a token that does not verify for a reason other than expiry.
GateAnswers(p, op, invalid) ==
    LET s == CallerNow(p)
        known == s.userId \in 1..Len(users)
        Refused(http, code) ==
            /\ Answered(p, op)
            /\ resp'[p].http = http
            /\ resp'[p].code = code
            /\ store' = store
    IN  Called(p, op) =>
          /\ s.kind = "none" => Refused(401, "MISSING_TOKEN")
          /\ s.kind = "forged" => Refused(invalid, "INVALID_TOKEN")
          /\ (s.kind = "jwt" /\ now >= s.exp) => Refused(401, "TOKEN_EXPIRED")
          /\ (s.kind = "jwt" /\ now < s.exp /\ (~known \/ ~users[s.userId].isActive))
             => Refused(401, "INVALID_USER")
          /\ (s.kind = "jwt" /\ now < s.exp /\ known /\ users[s.userId].isActive
                 /\ users[s.userId].role # "ADMIN")
             => Refused(403, "INSUFFICIENT_PERMISSIONS")

C21_DecisionRecorded ==
    [][\A p \in Procs :
         /\ Leaves(p, "approve_update")
            => LET r == requests'[loc[p].email] IN
               /\ r.status = "APPROVED"
               /\ r.completionToken # NULL
               /\ r.completionTokenExpires = now + CompletionTTL
               /\ r.approvedBy = loc[p].caller.userId
         /\ Leaves(p, "reject_update")
            => LET r == requests'[loc[p].email] IN
               /\ r.status = "REJECTED"
               /\ r.adminNotes = loc[p].reason
               /\ r.approvedBy = loc[p].caller.userId]_vars

\* C22: when Request, Approve or Reject reaches its notification the new state
\* of the request is already in the store; whether the send then succeeds or
\* fails, the store is left as it is and the caller gets the same 200 answer.
C22_NotificationBestEffort ==
    [][\A p \in Procs :
         /\ Leaves(p, "request_sendEmail")
            => /\ requests[loc[p].email].status = "PENDING"
               /\ requests[loc[p].email].verificationCode = loc[p].genCode
         /\ Leaves(p, "approve_sendEmail")
            => /\ requests[loc[p].email].status = "APPROVED"
               /\ requests[loc[p].email].completionToken = loc[p].token
         /\ Leaves(p, "reject_sendEmail")
            => /\ requests[loc[p].email].status = "REJECTED"
               /\ requests[loc[p].email].adminNotes = loc[p].reason
         /\ ( Leaves(p, "request_sendEmail") \/ Leaves(p, "approve_sendEmail")
                \/ Leaves(p, "reject_sendEmail") )
            => /\ store' = store
               /\ resp'[p].mail \in MailOutcomes
               /\ resp'[p].http = 200
               /\ resp'[p].code = "OK"]_vars

\* The approval mail could not be sent: the request is APPROVED with its token
\* and the administrator was answered 200.
C22_Witness ==
    /\ resp[1].op = "approve"
    /\ resp[1].mail = "failed"
    /\ resp[1].http = 200
    /\ TheRequest.status = "APPROVED"
    /\ TheRequest.completionToken # NULL

\* C23: in every state no two users and no two registration requests have
\* emails that are equal up to letter case.
C23_EmailCaseInsensitive ==
    /\ \A e1, e2 \in DOMAIN requests :
         ( /\ requests[e1].id # NULL /\ requests[e2].id # NULL
           /\ toLowerCase(e1) = toLowerCase(e2) )
         => e1 = e2
    /\ \A i, j \in 1..Len(users) :
         toLowerCase(users[i].email) = toLowerCase(users[j].email) => i = j

\* C24: Login goes on to issue a session token only when the store holds a
\* user under the given email who is active and whose hash matches the
\* password; the token then carries that user's id and stored role and lasts
\* 24 hours.  A Login that fails is answered at once and changes no user: an
\* unknown email and a wrong password with 401 INVALID_CREDENTIALS, an inactive
\* user with 401 ACCOUNT_DEACTIVATED.
C24_LoginChecks ==
    [][\A p \in Procs :
         LET u == findUserByEmail(toLowerCase(EmailNow(p)))
             matches == users[u].passwordHash = bcryptHash(PasswordNow(p))
         IN
         /\ Admitted(p, "login")
            => /\ u # NULL /\ users[u].isActive /\ matches
               /\ loc'[p].uid = u
         /\ Answered(p, "login")
            => /\ users' = users
               /\ resp'[p].http \in {400, 401}
               /\ (loginSchemaValid(PasswordNow(p)) /\ u = NULL)
                  => resp'[p].code = "INVALID_CREDENTIALS"
               /\ (loginSchemaValid(PasswordNow(p)) /\ u # NULL /\ ~users[u].isActive)
                  => resp'[p].code = "ACCOUNT_DEACTIVATED"
               /\ (loginSchemaValid(PasswordNow(p)) /\ u # NULL /\ users[u].isActive)
                  => /\ ~matches
                     /\ resp'[p].code = "INVALID_CREDENTIALS"
         /\ Leaves(p, "login_update")
            => /\ resp'[p].http = 200
               /\ resp'[p].caller = Jwt(loc[p].uid, now + SessionTTL)
               /\ resp'[p].role = users[loc[p].uid].role
               /\ users[loc[p].uid].email = toLowerCase(loc[p].email)
         /\ (resp'[p] # resp[p] /\ resp'[p].op = "login" /\ resp'[p].http = 200)
            => Leaves(p, "login_update")]_vars

\* A user created through the workflow logged in and holds a token for their id.
C24_Witness ==
    /\ resp[1].op = "login"
    /\ resp[1].http = 200
    /\ resp[1].caller.kind = "jwt"
    /\ resp[1].caller.userId > Len(SeedUsers)
    /\ users[resp[1].caller.userId].lastLogin # NULL

\* C25: Refresh with a refresh token that verifies and names an existing,
\* active user answers 200 with a new 24 hour session token for that user's id
\* and stored role; every other Refresh answers 401 and issues no token.
C25_RefreshIssuesToken ==
    [][\A p \in Procs :
         LET t == CallerNow(p)
             valid == /\ t.kind = "refresh" /\ now < t.exp
                      /\ t.userId \in 1..Len(users)
                      /\ users[t.userId].isActive
         IN  Called(p, "refresh")
             => /\ store' = store
                /\ valid => /\ resp'[p].http = 200
                            /\ resp'[p].issued = Jwt(t.userId, now + SessionTTL)
                            /\ resp'[p].role = users[t.userId].role
                /\ ~valid => /\ resp'[p].http = 401
                             /\ resp'[p].issued = NoSession]_vars

\* C26: in every state a registration request that holds a completion token
\* has status APPROVED.
C26_TokenOnlyWhenApproved ==
    \A e \in DOMAIN requests :
        requests[e].completionToken # NULL => requests[e].status = "APPROVED"

WorkflowRoutes == {"request", "verify", "approve", "reject", "complete"}

\* Complete has succeeded for the email: its last write is done.
Completed(e) == consumed[e].token # NULL

\* C27: once Complete has succeeded for an email, every Request, Verify,
\* Approve, Reject and Complete that follows is answered with an error, the
\* three that carry the email at once; the registration request is never
\* written again and no user is added or changed by these routes.
C27_CompletionFinal ==
    [][Completed(NewEmail)
       => /\ requests' = requests
          /\ findUserByEmail(NewEmail) # NULL
          /\ \A p \in Procs :
               /\ \A op \in {"request", "verify", "complete"} :
                    (Called(p, op) /\ EmailNow(p) = NewEmail)
                    => /\ Answered(p, op)
                       /\ resp'[p].http = 400
               /\ ( /\ pc'[p] = "idle"
                    /\ pc[p] # "idle" \/ resp'[p] # resp[p]
                    /\ resp'[p].op \in WorkflowRoutes )
                  => /\ resp'[p].http \in {400, 401, 403, 404}
                     /\ users' = users]_vars

\* After the registration was completed a new Request for the same email was
\* refused because the user exists.
C27_Witness ==
    /\ Completed(NewEmail)
    /\ resp[1].op = "request"
    /\ resp[1].email = NewEmail
    /\ resp[1].code = "USER_EXISTS"
    /\ TheRequest.status = "APPROVED"
    /\ TheRequest.completionToken = NULL

\* C28: no response carries a verification code or a completion token: every
\* registration request in a response body has both fields null.
C28_NoSecretInResponse ==
    [][\A p \in Procs :
         resp'[p] # resp[p]
         => \A row \in resp'[p].rows :
              /\ row.verificationCode = NULL
              /\ row.completionToken = NULL]_vars

\* The request for e is PENDING and its verification code, not yet used, has expired.
ExpiredUnverified(e) ==
    /\ requests[e].status = "PENDING"
    /\ requests[e].verificationCode # NULL
    /\ now > requests[e].verificationExpires

\* C29: a requester whose pending request holds an expired, unused code can get
\* out of that state alone.  Verify refuses an expired code, so the way out is a
\* new code: a Request for the email is then not refused at the check for an
\* existing request but goes on to its upsert.
C29_ExpiredCodeRecoverable ==
    [][\A p \in Procs :
         (Leaves(p, "request_findRequest") /\ ExpiredUnverified(loc[p].email))
         => pc'[p] = "request_upsert"]_vars

\* C30: in every state no two stored claims have the same claim number.
C30_ClaimNumbersUnique ==
    \A i, j \in 1..Len(claims) :
        ( /\ claims[i].claimNumber # NoClaimNumber
          /\ claims[i].claimNumber = claims[j].claimNumber )
        => i = j

====
